---- MODULE Spec2Model ----
(***************************************************************************)
(* Model of rangeshifter.py: the RangeShifter editor of RT Ion Plan files. *)
(*                                                                         *)
(* The state is the editor object (self), the request it is constructed    *)
(* from (args), the files on disk (fs) and the outcome of the latest call. *)
(* Python values are records [t, v, nan, s]: t is the type's name, v the   *)
(* number (millimetres or centimetres, whole), nan marks float('nan') and  *)
(* s holds a string as a sequence of one-character strings.                *)
(***************************************************************************)
EXTENDS Integers, Sequences, FiniteSets, TLC

VARIABLES
    args,      \* the constructor's arguments
    self,      \* the editor's attributes (Unset: never assigned)
    fs,        \* the files on disk: a set of [path, doc], one per path
    pc,        \* "new", "ready" (constructed), "raised" (__init__ raised)
    op,        \* the latest call: "", "__init__", "add", "save"
    exc,       \* the exception the latest call raised, "" when it returned
    loaded,    \* the dataset add() read at line 85 in its latest call
    ds,        \* add()'s local ds when its latest call ended
    uid,       \* add()'s local uid (line 121) when its latest call returned
    results,   \* the datasets add() assigned to self.ds (line 124)
    writes     \* every [path, doc] save() handed to save_as (line 132)

vars == <<args, self, fs, pc, op, exc, loaded, ds, uid, results, writes>>

---------------------------------------------------------------------------
(* Bounds of the model *)

MaxBeams == 2
MaxBlocks == 2
MaxControlPoints == 2

---------------------------------------------------------------------------
(* Python values *)

Val(t, v, nan, s) == [t |-> t, v |-> v, nan |-> nan, s |-> s]

None == Val("NoneType", 0, FALSE, <<>>)
Unset == Val("unset", 0, FALSE, <<>>)
True == Val("bool", 1, FALSE, <<>>)
False == Val("bool", 0, FALSE, <<>>)
PyNaN == Val("float", 0, TRUE, <<>>)
PyInt(n) == Val("int", n, FALSE, <<>>)
PyFloat(n) == Val("float", n, FALSE, <<>>)
PyStr(s) == Val("str", 0, FALSE, s)

\* isinstance(x, types): bool is a subclass of int
isinstance(x, types) == x.t \in types \/ (x.t = "bool" /\ "int" \in types)

Numeric(x) == x.t \in {"int", "float", "bool"}

\* a == b
eq(a, b) ==
    IF Numeric(a) /\ Numeric(b) THEN ~a.nan /\ ~b.nan /\ a.v = b.v
    ELSE a.t = b.t /\ a.s = b.s

\* a > b and a < b, defined on numbers; a float('nan') compares False. On None
\* or str against a number Python 3 raises TypeError
orderable(a, b) == Numeric(a) /\ Numeric(b)
gt(a, b) == ~a.nan /\ ~b.nan /\ a.v > b.v
lt(a, b) == ~a.nan /\ ~b.nan /\ a.v < b.v

\* x in list
contains(list, x) == \E i \in 1..Len(list) : eq(x, list[i])

\* bool(x)
truth(x) ==
    CASE x.t = "NoneType" -> FALSE
      [] x.t = "str" -> Len(x.s) > 0
      [] OTHER -> x.nan \/ x.v # 0

\* a + b and a - b on numbers: float when either is
plus(a, b) ==
    IF a.t = "float" \/ b.t = "float"
    THEN IF a.nan \/ b.nan THEN PyNaN ELSE PyFloat(a.v + b.v)
    ELSE PyInt(a.v + b.v)
minus(a, b) ==
    IF a.t = "float" \/ b.t = "float"
    THEN IF a.nan \/ b.nan THEN PyNaN ELSE PyFloat(a.v - b.v)
    ELSE PyInt(a.v - b.v)

DigitChars == <<"0", "1", "2", "3", "4", "5", "6", "7", "8", "9">>

RECURSIVE Digits(_)
Digits(n) ==
    IF n < 10 THEN <<DigitChars[n + 1]>>
    ELSE Digits(n \div 10) \o <<DigitChars[(n % 10) + 1]>>

IntStr(n) == IF n < 0 THEN <<"-">> \o Digits(0 - n) ELSE Digits(n)

\* str(x)
str(x) ==
    CASE x.t = "str" -> x.s
      [] x.t = "NoneType" -> <<"N", "o", "n", "e">>
      [] x.t = "bool" -> IF x.v = 1 THEN <<"T", "r", "u", "e">>
                         ELSE <<"F", "a", "l", "s", "e">>
      [] x.t = "int" -> IntStr(x.v)
      [] x.t = "float" -> IF x.nan THEN <<"n", "a", "n">>
                          ELSE IntStr(x.v) \o <<".", "0">>

Max(a, b) == IF a > b THEN a ELSE b
Min(a, b) == IF a < b THEN a ELSE b

\* s[-n:], s[:-n], s[a:b] and s[a:] for n > 0 and a, b >= 0
last(s, n) == SubSeq(s, Max(1, Len(s) - n + 1), Len(s))
droplast(s, n) == SubSeq(s, 1, Max(0, Len(s) - n))
slice(s, a, b) == SubSeq(s, a + 1, Min(b, Len(s)))
from(s, a) == SubSeq(s, a + 1, Len(s))

---------------------------------------------------------------------------
(* RangeShifter.__init__ *)

dcm == <<".", "d", "c", "m">>

\* lines 32-35
check_infile(infile) ==
    IF ~isinstance(infile, {"str"}) THEN "TypeError"
    ELSE IF ~(last(infile.s, 4) = dcm) THEN "ValueError"
    ELSE ""

Thicknesses == <<PyInt(2), PyInt(3), PyInt(5)>>

\* lines 37-42: the exception, if any
check_range_shifter(range_shifter, add_rangeshifter) ==
    IF contains(Thicknesses, range_shifter) THEN ""
    ELSE IF truth(add_rangeshifter) /\ ~contains(Thicknesses, range_shifter)
    THEN "ValueError"
    ELSE IF ~truth(add_rangeshifter)
            /\ ~contains(Thicknesses \o <<None>>, range_shifter)
    THEN "ValueError"
    ELSE ""

\* lines 37-38: self.RangeShifterID, assigned only for an accepted thickness
make_RangeShifterID(range_shifter) ==
    IF contains(Thicknesses, range_shifter)
    THEN PyStr(<<"R", "S", "=">> \o str(range_shifter) \o <<"c", "m">>)
    ELSE Unset

\* check_plan_id rejecting the empty string too
check_plan_id_nonempty(plan_id) ==
    IF ~isinstance(plan_id, {"str"}) THEN "TypeError"
    ELSE IF Len(plan_id.s) = 0 THEN "ValueError"
    ELSE ""

\* lines 44-45
check_plan_id(plan_id) ==
    IF ~isinstance(plan_id, {"str"}) THEN "TypeError" ELSE ""

\* lines 47-52; line 51 compares before it tests for None
check_snout_position(snout_position, add_rangeshifter) ==
    IF truth(add_rangeshifter) /\ ~isinstance(snout_position, {"float", "int"})
    THEN "TypeError"
    ELSE IF truth(add_rangeshifter)
            /\ (gt(snout_position, PyFloat(421)) \/ lt(snout_position, PyFloat(20)))
    THEN "ValueError"
    ELSE IF ~truth(add_rangeshifter) /\ ~orderable(snout_position, PyFloat(421))
    THEN "TypeError"
    ELSE IF ~truth(add_rangeshifter)
            /\ (gt(snout_position, PyFloat(421)) \/ lt(snout_position, PyFloat(20))
                \/ eq(snout_position, None))
    THEN "ValueError"
    ELSE ""

\* make_outfile using an explicit path as it is given
make_outfile_as_given(infile, range_shifter, snout_position, outfile) ==
    IF outfile = None
    THEN PyStr(droplast(infile.s, 4) \o <<"_", "R", "S">> \o str(range_shifter)
               \o <<"_", "S", "n", "o", "u", "t">> \o str(snout_position) \o dcm)
    ELSE outfile

\* lines 54-59
make_outfile(infile, range_shifter, snout_position, outfile) ==
    IF outfile = None
    THEN PyStr(droplast(infile.s, 4) \o <<"_", "R", "S">> \o str(range_shifter)
               \o <<"_", "S", "n", "o", "u", "t">> \o str(snout_position) \o dcm)
    ELSE IF ~(last(outfile.s, 4) = dcm) THEN PyStr(outfile.s \o dcm)
    ELSE outfile

max_rs_rad == 461
max_snout_rad == 421

\* lines 62-65
make_IsocentertoRangeShifterDistance(snout_position) ==
    IF truth(snout_position)
    THEN plus(minus(PyFloat(max_rs_rad), PyFloat(max_snout_rad)), snout_position)
    ELSE Unset

\* lines 71-76
RangeShifterNumber == 1
ReferencedRangeShifterNumber == 1
RangeShifterType == "BINARY"
RangeShifterSetting == "IN"
NumberOfRangeShifters == 1
RangeShifterWaterEquivalentThickness == PyFloat(23)

\* the object before __init__ has assigned anything
NoAttributes ==
    [RangeShifterID |-> Unset, outfile |-> Unset,
     IsocentertoRangeShifterDistance |-> Unset, infile |-> Unset,
     RTPlanLabel |-> Unset, SnoutPosition |-> Unset,
     add_rangeshifter |-> Unset, ds |-> Unset]

\* lines 23-76: the first exception raised, and the object when none is
__init__(infile, plan_id, snout_position, range_shifter, outfile, add_rangeshifter) ==
    LET e1 == check_infile(infile)
        e2 == check_range_shifter(range_shifter, add_rangeshifter)
        e3 == check_plan_id(plan_id)
        e4 == check_snout_position(snout_position, add_rangeshifter)
        e == IF e1 # "" THEN e1 ELSE IF e2 # "" THEN e2
             ELSE IF e3 # "" THEN e3 ELSE e4
    IN  IF e # "" THEN [exc |-> e, self |-> NoAttributes]
        ELSE [exc |-> "",
              self |-> [RangeShifterID |-> make_RangeShifterID(range_shifter),
                        outfile |-> make_outfile(infile, range_shifter,
                                                 snout_position, outfile),
                        IsocentertoRangeShifterDistance |->
                            make_IsocentertoRangeShifterDistance(snout_position),
                        infile |-> infile,
                        RTPlanLabel |-> plan_id,
                        SnoutPosition |-> snout_position,
                        add_rangeshifter |-> add_rangeshifter,
                        ds |-> Unset]]

---------------------------------------------------------------------------
(* The RT Ion Plan dataset, as dcmread returns it *)

\* dcmread(path): the file at path, {} when there is none
file_at(files, path) == {f \in files : f.path = path}
dcmread(files, path) == (CHOOSE f \in files : f.path = path).doc

\* ds.save_as(path): the file is created or overwritten
save_as(files, doc, path) ==
    (files \ file_at(files, path)) \cup {[path |-> path, doc |-> doc]}

---------------------------------------------------------------------------
(* RangeShifter.add *)

raise(e, beam) == [exc |-> e, beam |-> beam]
return(beam) == [exc |-> "", beam |-> beam]

\* lines 89-92
rs_seq(s) ==
    [RangeShifterNumber |-> RangeShifterNumber,
     RangeShifterID |-> s.RangeShifterID,
     RangeShifterType |-> RangeShifterType]

\* lines 95-99
rs_set_seq(s) ==
    [RangeShifterSetting |-> RangeShifterSetting,
     IsocenterToRangeShifterDistance |-> s.IsocentertoRangeShifterDistance,
     RangeShifterWaterEquivalentThickness |-> RangeShifterWaterEquivalentThickness,
     ReferencedRangeShifterNumber |-> ReferencedRangeShifterNumber]

\* add_beam with the new blocks appended to the sequences the beam already has
add_beam_appending(s, ion_beam_seq) ==
    LET b1 == [ion_beam_seq EXCEPT !.NumberOfRangeShifters = NumberOfRangeShifters]
    IN  IF Len(b1.IonControlPointSequence) = 0 THEN raise("IndexError", b1)
        ELSE return(
            [b1 EXCEPT
                !.IonControlPointSequence[1].SnoutPosition = s.SnoutPosition,
                !.RangeShifterSequence = Append(@, rs_seq(s)),
                !.IonControlPointSequence[1].RangeShifterSettingsSequence =
                    Append(@, rs_set_seq(s))])

\* lines 103-106, one pass of the loop: IonControlPointSequence[0] raises
\* IndexError on a beam without control points, after line 103 has written
add_beam(s, ion_beam_seq) ==
    LET b1 == [ion_beam_seq EXCEPT !.NumberOfRangeShifters = NumberOfRangeShifters]
    IN  IF Len(b1.IonControlPointSequence) = 0 THEN raise("IndexError", b1)
        ELSE return(
            [b1 EXCEPT
                !.IonControlPointSequence[1].SnoutPosition = s.SnoutPosition,
                !.RangeShifterSequence = <<rs_seq(s)>>,
                !.IonControlPointSequence[1].RangeShifterSettingsSequence =
                    <<rs_set_seq(s)>>])

\* line 113: the right-hand side is the bare name RangeShifterID, which is bound
\* neither in add() nor at module level (from pydicom import * binds no such
\* name), and it is evaluated before the target: NameError
assign_RangeShifterID(s, ion_beam_seq) == raise("NameError", ion_beam_seq)

\* lines 114-117
assign_SnoutPosition(s, ion_beam_seq) ==
    IF Len(ion_beam_seq.IonControlPointSequence) = 0
    THEN raise("IndexError", ion_beam_seq)
    ELSE LET b1 == [ion_beam_seq EXCEPT
                       !.IonControlPointSequence[1].SnoutPosition = s.SnoutPosition]
         IN  IF Len(b1.IonControlPointSequence[1].RangeShifterSettingsSequence) = 0
             THEN raise("IndexError", b1)
             ELSE return(
                 [b1 EXCEPT
                     !.IonControlPointSequence[1].RangeShifterSettingsSequence[1]
                         .IsocenterToRangeShifterDistance =
                             s.IsocentertoRangeShifterDistance])

\* lines 111-117, one pass of the loop: self.RangeShifterID is read at line 111
\* and raises AttributeError when __init__ never assigned it
modify_beam(s, ion_beam_seq) ==
    IF s.RangeShifterID = Unset THEN raise("AttributeError", ion_beam_seq)
    ELSE LET r == IF truth(s.RangeShifterID)
                  THEN assign_RangeShifterID(s, ion_beam_seq)
                  ELSE return(ion_beam_seq)
         IN  IF r.exc # "" THEN r
             ELSE IF truth(s.SnoutPosition) THEN assign_SnoutPosition(s, r.beam)
             ELSE r

edit_beam(s, ion_beam_seq) ==
    IF eq(s.add_rangeshifter, True) THEN add_beam(s, ion_beam_seq)
    ELSE modify_beam(s, ion_beam_seq)

\* lines 102 and 110: the loop over ds.IonBeamSequence, which stops at the first
\* exception with the earlier beams already edited in place
RECURSIVE edit_beams(_, _, _)
edit_beams(s, beams, i) ==
    IF i > Len(beams) THEN [exc |-> "", beams |-> beams]
    ELSE LET r == edit_beam(s, beams[i])
             edited == [beams EXCEPT ![i] = r.beam]
         IN  IF r.exc # "" THEN [exc |-> r.exc, beams |-> edited]
             ELSE edit_beams(s, edited, i + 1)

\* new_uid replacing the character at index 3
new_uid_at_3(u) == PyStr(slice(u.s, 0, 3) \o <<"4">> \o from(u.s, 4))

\* line 122
new_uid(u) == PyStr(slice(u.s, 0, 2) \o <<"4">> \o from(u.s, 3))

\* lines 120-122
update_metadata(s, d) ==
    [d EXCEPT !.RTPlanLabel = s.RTPlanLabel,
              !.SOPInstanceUID = new_uid(d.SOPInstanceUID)]

\* assign_ds with self.ds bound to the dataset before the edits, which are made
\* in place
assign_ds_early(s, d, e) == d

\* line 124: self.ds after add(), given add()'s local ds and whether it raised
assign_ds(s, d, e) == IF e = "" THEN d ELSE s.ds

\* lines 85-124: the exception raised ("" when add() returns), the dataset read,
\* the local ds when add() ends, and self.ds after it
add(s, files) ==
    IF file_at(files, s.infile.s) = {}
    THEN [exc |-> "FileNotFoundError", loaded |-> Unset, ds |-> Unset, selfds |-> s.ds]
    ELSE LET d0 == dcmread(files, s.infile.s)
             \* lines 91 and 97 read the attributes before the loop
             e0 == IF eq(s.add_rangeshifter, True)
                      /\ (s.RangeShifterID = Unset
                          \/ s.IsocentertoRangeShifterDistance = Unset)
                   THEN "AttributeError" ELSE ""
             r == IF e0 # "" THEN [exc |-> e0, beams |-> d0.IonBeamSequence]
                  ELSE edit_beams(s, d0.IonBeamSequence, 1)
             d1 == [d0 EXCEPT !.IonBeamSequence = r.beams]
             d2 == IF r.exc = "" THEN update_metadata(s, d1) ELSE d1
         IN  [exc |-> r.exc, loaded |-> d0, ds |-> d2,
              selfds |-> assign_ds(s, d2, r.exc)]

---------------------------------------------------------------------------
(* RangeShifter.save *)

\* lines 131-132: self.ds raises AttributeError when add() never assigned it
save(s, files) ==
    IF s.ds = Unset THEN [exc |-> "AttributeError", files |-> files]
    ELSE [exc |-> "", files |-> save_as(files, s.ds, s.outfile.s)]

---------------------------------------------------------------------------
(* Inputs *)

plan_dcm == <<"p", "l", "a", "n", ".", "d", "c", "m">>
gone_dcm == <<"g", "o", "n", "e", ".", "d", "c", "m">>

OldDevice(k) ==
    [RangeShifterNumber |-> k,
     RangeShifterID |-> PyStr(<<"R", "S", "=", "5", "c", "m">>),
     RangeShifterType |-> "BINARY"]

OldSettings(k) ==
    [RangeShifterSetting |-> "OUT",
     IsocenterToRangeShifterDistance |-> PyFloat(140),
     RangeShifterWaterEquivalentThickness |-> PyFloat(57),
     ReferencedRangeShifterNumber |-> k]

\* an ion beam with b device blocks, c control points and b settings blocks in
\* each control point
Beam(b, c) ==
    [NumberOfRangeShifters |-> b,
     RangeShifterSequence |-> [k \in 1..b |-> OldDevice(k)],
     IonControlPointSequence |->
         [j \in 1..c |->
             [SnoutPosition |-> PyFloat(100),
              RangeShifterSettingsSequence |-> [k \in 1..b |-> OldSettings(k)]]]]

Beams == {Beam(b, c) : b \in 0..MaxBlocks, c \in 0..MaxControlPoints}

BeamSequences == UNION {[1..n -> Beams] : n \in 0..MaxBeams}

\* beams that all look alike
PlainBeamSequences == {[i \in 1..n |-> Beam(1, 1)] : n \in 0..MaxBeams}

dicom_uid == <<"1", ".", "2", ".", "8", "4", "0", ".", "9", "9", "9", "9", "9">>

UIDs ==
    {dicom_uid,
     <<"1", ".", "4", ".", "5">>,
     <<"1", ".", "2">>,
     <<"1", "2">>}

Plan(u, beams) ==
    [SOPInstanceUID |-> PyStr(u),
     RTPlanLabel |-> PyStr(<<"O", "L", "D">>),
     IonBeamSequence |-> beams]

Request(i, p, sn, rs, o, a) ==
    [infile |-> i, plan_id |-> p, snout_position |-> sn, range_shifter |-> rs,
     outfile |-> o, add_rangeshifter |-> a]

\* a few requests, for many documents
FewRequests ==
    {Request(PyStr(plan_dcm), PyStr(<<"P">>), q[1], q[2], o, a) :
        q \in {<<PyFloat(250), PyInt(3)>>, <<PyInt(20), PyInt(5)>>,
               <<PyFloat(250), None>>},
        o \in {None, PyStr(plan_dcm)},
        a \in {True, False}}

\* many requests, for a few documents
ManyRequests ==
    {Request(i, p, sn, rs, o, a) :
        i \in {PyStr(plan_dcm), PyStr(<<"p", "l", "a", "n">>), PyStr(gone_dcm), PyInt(5)},
        p \in {PyStr(<<"P">>), PyStr(<<>>), None},
        sn \in {PyInt(19), PyInt(20), PyFloat(250), PyInt(250), PyFloat(421),
                PyInt(422), PyInt(0), None, PyNaN, PyStr(<<"2", "5", "0">>)},
        rs \in {PyInt(2), PyInt(3), PyInt(5), PyFloat(2), PyInt(4), PyInt(0),
                None, PyStr(<<"3">>)},
        o \in {None, PyStr(<<"o", "u", "t">>), PyStr(<<"o", "u", "t">> \o dcm)},
        a \in {True, False}}

---------------------------------------------------------------------------
(* The state machine *)

\* every beam sequence under one identifier, every identifier over plain beams
Plans ==
    {Plan(dicom_uid, b) : b \in BeamSequences}
        \cup {Plan(u, b) : u \in UIDs, b \in PlainBeamSequences}

PlainPlans == {Plan(dicom_uid, b) : b \in PlainBeamSequences}

Start(requests, plans) ==
    /\ args \in requests
    /\ fs \in {{[path |-> plan_dcm, doc |-> d]} : d \in plans}
    /\ self = NoAttributes
    /\ pc = "new"
    /\ op = ""
    /\ exc = ""
    /\ loaded = Unset
    /\ ds = Unset
    /\ uid = Unset
    /\ results = {}
    /\ writes = {}

Init == Start(FewRequests, Plans)

InitRequests == Start(ManyRequests, PlainPlans)

\* RangeShifter(infile, plan_id, snout_position, range_shifter, outfile,
\* add_rangeshifter)
Construct ==
    /\ pc = "new"
    /\ LET r == __init__(args.infile, args.plan_id, args.snout_position,
                         args.range_shifter, args.outfile, args.add_rangeshifter)
       IN  /\ self' = r.self
           /\ exc' = r.exc
           /\ pc' = IF r.exc = "" THEN "ready" ELSE "raised"
    /\ op' = "__init__"
    /\ UNCHANGED <<args, fs, loaded, ds, uid, results, writes>>

Add ==
    /\ pc = "ready"
    /\ LET r == add(self, fs)
       IN  /\ self' = [self EXCEPT !.ds = r.selfds]
           /\ exc' = r.exc
           /\ loaded' = r.loaded
           /\ ds' = r.ds
           /\ uid' = IF r.exc = "" THEN r.loaded.SOPInstanceUID ELSE uid
           /\ results' = IF r.exc = "" THEN results \cup {r.ds} ELSE results
    /\ op' = "add"
    /\ UNCHANGED <<args, fs, pc, writes>>

Save ==
    /\ pc = "ready"
    /\ LET r == save(self, fs)
       IN  /\ fs' = r.files
           /\ exc' = r.exc
           /\ writes' = IF r.exc = "" THEN writes \cup {[path |-> self.outfile.s, doc |-> self.ds]}
                        ELSE writes
    /\ op' = "save"
    /\ UNCHANGED <<args, self, pc, loaded, ds, uid, results>>

Next == Construct \/ Add \/ Save

Spec == Init /\ [][Next]_vars

SpecRequests == InitRequests /\ [][Next]_vars

---------------------------------------------------------------------------
(* Properties *)

Beam_(d, i) == d.IonBeamSequence[i]
FirstControlPoint(d, i) == d.IonBeamSequence[i].IonControlPointSequence[1]

AddMode == args.add_rangeshifter = True
ModifyMode == args.add_rangeshifter = False

\* the thickness is the int 2, 3 or 5
IntThickness(x) == x \in {PyInt(2), PyInt(3), PyInt(5)}

\* the number p lies in [20, 421]
InRange(p) == Numeric(p) /\ ~p.nan /\ 20 <= p.v /\ p.v <= 421

\* 40.0 + p
FortyPlus(p) == IF p.nan THEN PyNaN ELSE PyFloat(40 + p.v)

\* "RS=<n>cm"
Identifier(n) == PyStr(<<"R", "S", "=">> \o <<DigitChars[n + 1]>> \o <<"c", "m">>)

\* every beam of d has a control point
HasControlPoints(d) ==
    \A i \in 1..Len(d.IonBeamSequence) :
        Len(Beam_(d, i).IonControlPointSequence) >= 1

\* every beam of d has a control point, a device block and a settings block
HasBlocks(d) ==
    \A i \in 1..Len(d.IonBeamSequence) :
        /\ Len(Beam_(d, i).IonControlPointSequence) >= 1
        /\ Len(Beam_(d, i).RangeShifterSequence) >= 1
        /\ Len(FirstControlPoint(d, i).RangeShifterSettingsSequence) >= 1

AddReturned == pc = "ready" /\ op = "add" /\ exc = ""

\* C1: in add mode, add() on a document whose N >= 1 beams all have a control
\* point returns, and the document then has N beams, each with range-shifter
\* count 1, the one device block (1, "RS=<thickness>cm", BINARY), in its first
\* control point the one settings block (IN, 40 + snout position, 23.0, 1) and
\* the requested snout position, whatever blocks it had before; the further
\* control points are as loaded.
C1_AddModeEndToEnd ==
    (/\ pc = "ready" /\ AddMode /\ op = "add" /\ loaded # Unset
     /\ Len(loaded.IonBeamSequence) >= 1 /\ HasControlPoints(loaded))
    => /\ exc = ""
       /\ self.ds = ds
       /\ Len(ds.IonBeamSequence) = Len(loaded.IonBeamSequence)
       /\ \A i \in 1..Len(ds.IonBeamSequence) :
            /\ Beam_(ds, i).NumberOfRangeShifters = 1
            /\ Beam_(ds, i).RangeShifterSequence =
                 <<[RangeShifterNumber |-> 1,
                    RangeShifterID |-> Identifier(args.range_shifter.v),
                    RangeShifterType |-> "BINARY"]>>
            /\ FirstControlPoint(ds, i).RangeShifterSettingsSequence =
                 <<[RangeShifterSetting |-> "IN",
                    IsocenterToRangeShifterDistance |-> FortyPlus(args.snout_position),
                    RangeShifterWaterEquivalentThickness |-> PyFloat(23),
                    ReferencedRangeShifterNumber |-> 1]>>
            /\ FirstControlPoint(ds, i).SnoutPosition = args.snout_position
            /\ Len(Beam_(ds, i).IonControlPointSequence)
                 = Len(Beam_(loaded, i).IonControlPointSequence)
            /\ \A j \in 2..Len(Beam_(ds, i).IonControlPointSequence) :
                 Beam_(ds, i).IonControlPointSequence[j]
                   = Beam_(loaded, i).IonControlPointSequence[j]

\* add() has returned in add mode on two beams, one with several blocks and one
\* with none
C1_Witness ==
    /\ AddReturned /\ AddMode
    /\ Len(loaded.IonBeamSequence) = 2
    /\ Len(Beam_(loaded, 1).RangeShifterSequence) = 2
    /\ Len(FirstControlPoint(loaded, 1).RangeShifterSettingsSequence) = 2
    /\ Len(Beam_(loaded, 2).RangeShifterSequence) = 0
    /\ Len(Beam_(loaded, 2).IonControlPointSequence) = 2

ValidInfile == args.infile.t = "str" /\ last(args.infile.s, 4) = dcm
ValidPlan == args.plan_id.t = "str" /\ Len(args.plan_id.s) > 0
ValidThickness ==
    IntThickness(args.range_shifter) \/ (ModifyMode /\ args.range_shifter = None)
ValidSnout == InRange(args.snout_position)

\* the number x is 2, 3 or 5
IsThickness(x) == Numeric(x) /\ ~x.nan /\ x.v \in {2, 3, 5}

\* C2: in modify mode with a thickness of 2, 3 or 5 and no snout position,
\* construction succeeds and add() returns with every beam's snout position and
\* first isocenter distance as loaded and its first device identifier
\* "RS=<thickness>cm".
C2_ModifyThicknessOnly ==
    (/\ pc # "new" /\ ModifyMode /\ IntThickness(args.range_shifter)
     /\ args.snout_position = None /\ args.infile.s = plan_dcm /\ ValidPlan)
    => /\ pc = "ready"
       /\ (op = "add" /\ loaded # Unset /\ HasBlocks(loaded))
          => /\ exc = ""
             /\ \A i \in 1..Len(loaded.IonBeamSequence) :
                  /\ FirstControlPoint(ds, i).SnoutPosition
                       = FirstControlPoint(loaded, i).SnoutPosition
                  /\ FirstControlPoint(ds, i).RangeShifterSettingsSequence[1]
                       = FirstControlPoint(loaded, i).RangeShifterSettingsSequence[1]
                  /\ Beam_(ds, i).RangeShifterSequence[1].RangeShifterID
                       = Identifier(args.range_shifter.v)

\* C3: with the other arguments valid, construction in add mode succeeds
\* exactly when the thickness is 2, 3 or 5, and the identifier is then "RS=2cm",
\* "RS=3cm" or "RS=5cm"; in modify mode it succeeds exactly when the thickness
\* is 2, 3, 5 or None.
C3_ThicknessValidation ==
    (pc # "new" /\ ValidInfile /\ ValidPlan /\ ValidSnout)
    => /\ AddMode => ((pc = "ready") <=> IsThickness(args.range_shifter))
       /\ ModifyMode => ((pc = "ready") <=> (IsThickness(args.range_shifter)
                                             \/ args.range_shifter = None))
       /\ (pc = "ready" /\ args.range_shifter # None)
          => self.RangeShifterID = Identifier(args.range_shifter.v)

\* C4: with the other arguments valid, construction in add mode succeeds
\* exactly when the snout position is a number in [20, 421]; every editor that
\* holds a snout position p holds the distance 40 + p.
C4_SnoutAndDistance ==
    (pc # "new" /\ ValidInfile /\ ValidPlan /\ IntThickness(args.range_shifter))
    => /\ AddMode => ((pc = "ready") <=> InRange(args.snout_position))
       /\ (pc = "ready" /\ self.SnoutPosition # None)
          => /\ self.SnoutPosition = args.snout_position
             /\ self.IsocentertoRangeShifterDistance = FortyPlus(self.SnoutPosition)

\* the identifier after add() is the loaded one with the character at index 2
\* replaced by '4'
ThirdCharacterReplaced ==
    Len(uid.s) >= 3
    => /\ Len(ds.SOPInstanceUID.s) = Len(uid.s)
       /\ ds.SOPInstanceUID.s[3] = "4"
       /\ \A k \in 1..Len(uid.s) : k # 3 => ds.SOPInstanceUID.s[k] = uid.s[k]

\* C5, as amended: after every add() that returns, in either mode, an
\* identifier of length >= 3 has its character at index 2 replaced by '4' and
\* is otherwise unchanged; "1.2.840.99999" becomes "1.4.840.99999".
C5_IdentifierRewrite ==
    AddReturned
    => /\ self.ds = ds
       /\ ThirdCharacterReplaced
       /\ uid.s = dicom_uid
          => ds.SOPInstanceUID.s
               = <<"1", ".", "4", ".", "8", "4", "0", ".", "9", "9", "9", "9", "9">>

\* C5, as claimed: the same rule, with "1.2.840.99999" becoming "1.24840.99999"
C5_Original ==
    AddReturned
    => /\ ThirdCharacterReplaced
       /\ uid.s = dicom_uid
          => ds.SOPInstanceUID.s
               = <<"1", ".", "2", "4", "8", "4", "0", ".", "9", "9", "9", "9", "9">>

\* add() has returned on a plan with beams whose identifier was "1.2.840.99999"
C5_Witness ==
    AddReturned /\ uid.s = dicom_uid /\ Len(loaded.IonBeamSequence) >= 1

\* C6: the editor's output path ends in ".dcm"; without an explicit path it is
\* the input path less its last four characters + "_RS" + str(thickness) +
\* "_Snout" + str(snout position) + ".dcm" ("plan_RS3_Snout250.0.dcm" for
\* "plan.dcm", 3 and 250.0); an explicit path gets ".dcm" appended when it
\* lacks it ("out" gives "out.dcm") and is kept otherwise; save() writes to
\* that path and to no other.
C6_OutputPath ==
    pc = "ready"
    => /\ last(self.outfile.s, 4) = dcm
       /\ args.outfile = None
          => self.outfile.s
               = droplast(args.infile.s, 4) \o <<"_", "R", "S">>
                   \o str(args.range_shifter) \o <<"_", "S", "n", "o", "u", "t">>
                   \o str(args.snout_position) \o <<".", "d", "c", "m">>
       /\ (/\ args.outfile = None /\ args.infile.s = plan_dcm
           /\ args.range_shifter = PyInt(3) /\ args.snout_position = PyFloat(250))
          => self.outfile.s
               = <<"p", "l", "a", "n", "_", "R", "S", "3", "_", "S", "n", "o", "u",
                   "t", "2", "5", "0", ".", "0", ".", "d", "c", "m">>
       /\ args.outfile = PyStr(<<"o", "u", "t">>)
          => self.outfile.s = <<"o", "u", "t", ".", "d", "c", "m">>
       /\ (args.outfile # None /\ last(args.outfile.s, 4) = dcm)
          => self.outfile = args.outfile
       /\ \A w \in writes : w.path = self.outfile.s
       /\ (op = "save" /\ exc = "")
          => file_at(fs, self.outfile.s)
               = {[path |-> self.outfile.s, doc |-> self.ds]}
       /\ \A f \in fs : f.path \in {plan_dcm, self.outfile.s}

\* save() has written the file "plan_RS3_Snout250.0.dcm"
C6_Witness ==
    /\ pc = "ready" /\ op = "save" /\ exc = "" /\ args.outfile = None
    /\ \E f \in fs :
         f.path = <<"p", "l", "a", "n", "_", "R", "S", "3", "_", "S", "n", "o", "u",
                    "t", "2", "5", "0", ".", "0", ".", "d", "c", "m">>

NonEmptyText(x) == x.t = "str" /\ Len(x.s) > 0

\* C7, as amended: construction fails, with a TypeError when the earlier checks
\* pass, whenever the plan label is not a string; the empty string is accepted;
\* the editor's plan label is the string given, and it is the plan label add()
\* writes.
C7_PlanLabel ==
    /\ (pc # "new" /\ args.plan_id.t # "str") => pc = "raised"
    /\ (op = "__init__" /\ args.plan_id.t # "str" /\ ValidInfile /\ ValidThickness)
       => exc = "TypeError"
    /\ (pc # "new" /\ args.plan_id = PyStr(<<>>) /\ ValidInfile /\ ValidThickness
        /\ ValidSnout)
       => pc = "ready"
    /\ pc = "ready" => (self.RTPlanLabel = args.plan_id /\ self.RTPlanLabel.t = "str")
    /\ AddReturned => ds.RTPlanLabel = args.plan_id

\* C7, as claimed: construction fails whenever the plan label is not non-empty
\* text (here with the other arguments valid), and the plan label add() writes
\* is a non-empty string
C7_Original ==
    /\ (pc # "new" /\ ~NonEmptyText(args.plan_id) /\ ValidInfile
        /\ IntThickness(args.range_shifter) /\ ValidSnout)
       => pc = "raised"
    /\ AddReturned => NonEmptyText(ds.RTPlanLabel)

\* add() has written the empty plan label
C7_Witness == AddReturned /\ ds.RTPlanLabel = PyStr(<<>>)

\* C8: every dataset save() has written, and self.ds whenever it is set, is a
\* dataset that add() returned with (all beams edited, plan label and identifier
\* updated); while no add() has returned, save() raises and writes nothing.
C8_NoPartialOutput ==
    /\ \A w \in writes : w.doc \in results
    /\ self.ds = Unset \/ self.ds \in results
    /\ (op = "save" /\ results = {})
       => (exc = "AttributeError" /\ writes = {}
           /\ \A f \in fs : f.path = plan_dcm /\ f.doc \in Plans)
    /\ \A f \in fs : f.doc \in results \/ (f.path = plan_dcm /\ f.doc \in Plans)

\* add() raised after it had edited some beam, and then save() raised and wrote
\* nothing
C8_Witness ==
    /\ op = "save" /\ exc = "AttributeError" /\ writes = {}
    /\ loaded # Unset /\ ds # loaded

\* C9: after every add() that returns, in either mode, the document's
\* identifier differs from the one it was loaded with (here on documents with
\* at least one beam).
C9_NewInstance ==
    (AddReturned /\ Len(loaded.IonBeamSequence) >= 1) => ds.SOPInstanceUID # uid

\* C10: in modify mode with a thickness of 2, 3 or 5 and a snout position in
\* [20, 421], add() on a document whose beams all have a device and a settings
\* block returns, with every beam's first device identifier "RS=<thickness>cm",
\* its snout position the requested one, its first isocenter distance 40 + snout
\* position, its block counts as loaded, and the plan label and identifier
\* updated.
C10_ModifyBoth ==
    (/\ pc = "ready" /\ ModifyMode /\ IntThickness(args.range_shifter)
     /\ InRange(args.snout_position) /\ op = "add" /\ loaded # Unset
     /\ HasBlocks(loaded))
    => /\ exc = ""
       /\ ds.RTPlanLabel = args.plan_id
       /\ ds.SOPInstanceUID = new_uid(loaded.SOPInstanceUID)
       /\ \A i \in 1..Len(loaded.IonBeamSequence) :
            /\ Beam_(ds, i).RangeShifterSequence[1].RangeShifterID
                 = Identifier(args.range_shifter.v)
            /\ FirstControlPoint(ds, i).SnoutPosition = args.snout_position
            /\ FirstControlPoint(ds, i).RangeShifterSettingsSequence[1]
                 .IsocenterToRangeShifterDistance = FortyPlus(args.snout_position)
            /\ Len(Beam_(ds, i).RangeShifterSequence)
                 = Len(Beam_(loaded, i).RangeShifterSequence)
            /\ Len(FirstControlPoint(ds, i).RangeShifterSettingsSequence)
                 = Len(FirstControlPoint(loaded, i).RangeShifterSettingsSequence)

====
